---- MODULE Spec2Model ----
(***************************************************************************)
(* Model of tools/apply_priority.py: the issue-triage synchronizer that    *)
(* pushes a fixed plan (issue title -> priority label, milestone) onto a   *)
(* GitHub repository through the gh command line.                          *)
(*                                                                         *)
(* The tracker (labels, milestones, issues) is the remote state.  Every    *)
(* action of the program is one gh command together with the Python code   *)
(* that runs up to the next command.                                       *)
(***************************************************************************)
EXTENDS Integers, Sequences, FiniteSets, TLC

(***************************************************************************)
(* Bounds of the model.                                                    *)
(***************************************************************************)
MaxIssues == 2        \* issues in the tracker
MaxDeletes == 1       \* milestones another tracker client may delete

(***************************************************************************)
(* The plan built in main().                                               *)
(***************************************************************************)
StartupLabels == <<"P0", "P1", "P2">>

Priorities == {"P0", "P1", "P2"}

StartupMilestones ==
    << "M0 Setup & Schema", "M1 Ingestion Core",
       "M2 Enrichment + API", "M3 Semantic Search (beta)" >>

\* The description main() passes with each of them.
MilestoneDescriptions ==
    << "Scaffold, config, docker, ClickHouse schema, Makefile",
       "Provider client, cursors, fetchers, normalization, decoders, idempotency, reorgs",
       "EOA/contract, ERC-165, labels, summary + lists API, counters",
       "Embeddings pipeline, ANN queries, /search API" >>

MilestoneTitles == { StartupMilestones[i] : i \in 1..Len(StartupMilestones) }

P0_M0 ==
    << "Scaffold repo structure (Go-first layout)",
       "Define 12-factor configuration",
       "Tooling: docker-compose for ClickHouse (and Redis)",
       "Makefile and scripts",
       "SQL: Author ClickHouse schema.sql",
       "SQL: Add surrogate UIDs and adjust ORDER BY" >>

P0_M1 ==
    << "Provider client with retries/backoff and rate limiting",
       "Implement address backfill and delta cursors",
       "Fetcher: external transactions (from/to)",
       "Fetcher: ERC-20/721/1155 transfers via logs",
       "Fetcher: approvals (ERC-20/721/1155)",
       "Fetcher: internal traces",
       "Detect contract creation and persist to contracts",
       "Normalization: unify types and timestamps",
       "Decoders: ERC-20/721/1155 topics & selectors",
       "Idempotency & dedup strategy",
       "Reorg handling with N confirmations",
       "Testing: recorded RPC fixtures and CI",
       "Observability: structured JSON logs" >>

P0_M2 ==
    << "Enrichment: EOA vs contract via eth_getCode",
       "Enrichment: ERC-165 and metadata (name/symbol/decimals)",
       "Label registry and confidence scoring",
       "API: POST /v1/address/:address/sync",
       "API: GET /v1/address/:address/summary",
       "API: GET lists (token-transfers, approvals, dapps)" >>

P1_M2 ==
    << "SQL: Common queries and projections",
       "Observability: metrics and health checks",
       "Enrichment: proxy detection (EIP-1967/UUPS)",
       "Docs: finalize PRD (EN) and ADR-0001",
       "Docs: ADR-0002 Ingestion idempotency & reorg handling" >>

P2_M3 ==
    << "Embeddings job and storage",
       "Semantic search helpers and filters",
       "API: GET /v1/search (text + semantic)" >>

\* Variant: an entry is given a milestone that is not ensured at startup.
EntryUnplanned(t, p, ms) == [title |-> t, prio |-> p, ms_title |-> "Backlog"]

Entry(t, p, ms) == [title |-> t, prio |-> p, ms_title |-> ms]

EPICS ==
    << Entry("Epic: Data Model & SQL", "P0", "M0 Setup & Schema"),
       Entry("Epic: Tooling & CI", "P0", "M0 Setup & Schema"),
       Entry("Epic: Ingestion Pipeline", "P0", "M1 Ingestion Core"),
       Entry("Epic: Normalization & Decoders", "P0", "M1 Ingestion Core"),
       Entry("Epic: Enrichment & Labels", "P0", "M2 Enrichment + API"),
       Entry("Epic: API", "P0", "M2 Enrichment + API"),
       Entry("Epic: Observability & Reliability", "P1", "M2 Enrichment + API"),
       Entry("Epic: Docs", "P1", "M2 Enrichment + API"),
       Entry("Epic: Embeddings & Search", "P2", "M3 Semantic Search (beta)") >>

\* for t in <list>: plan[t] = (p, ms)
Group(list, p, ms) == [i \in 1..Len(list) |-> Entry(list[i], p, ms)]

\* The plan dict in insertion order (all titles are distinct, so no key is
\* overwritten by a later assignment or by plan.update(EPICS)).
plan ==
    Group(P0_M0, "P0", "M0 Setup & Schema")
    \o Group(P0_M1, "P0", "M1 Ingestion Core")
    \o Group(P0_M2, "P0", "M2 Enrichment + API")
    \o Group(P1_M2, "P1", "M2 Enrichment + API")
    \o Group(P2_M3, "P2", "M3 Semantic Search (beta)")
    \o EPICS

PlanTitles == { plan[i].title : i \in 1..Len(plan) }

(***************************************************************************)
(* Tracker contents the model starts from.                                 *)
(***************************************************************************)
\* Titles the tracker's issues may carry: two planned titles with different
\* (priority, milestone) pairs and one title outside the plan.
IssueTitlePool ==
    << "Epic: Docs", "Epic: Embeddings & Search", "Unplanned issue" >>

\* milestones.get(...) / title_to_num.get(...) return None on a missing key;
\* None and 0 are both falsy, and the tracker numbers from 1.
None == 0

\* --limit 200 of gh issue list
IssueListLimit == 200

\* An issue without a milestone.
NoMilestone == None

VARIABLES
    pc,            \* position of the program
    k,             \* startup: index of the priority label being ensured
    m,             \* startup: index of the milestone being ensured
    idx,           \* main loop: index of the plan entry (0 before the loop)
    num,           \* main loop: title_to_num.get(title)
    call,          \* arguments of the running apply_issue call
    callStart,     \* Len(calls) when the running apply_issue call began
    ms_number,     \* apply_issue: milestones.get(milestone_title)
    labels,        \* apply_issue: the label list sent in the patch
    err,           \* exception raised by apply_issue
    exitCode,      \* -1 while running, then the exit code of the process
    uncaught,      \* exception that ended main, "" if none
    title_to_num,  \* the open-issue index
    missing,       \* main: titles not found
    out,           \* lines printed on stdout
    warnings,      \* labels named in warnings on stderr
    calls,         \* every gh command issued, with its return code
    trLabels,      \* tracker: labels of the repository
    trMilestones,  \* tracker: open milestones, in listing order
    msCounter,     \* tracker: last milestone number handed out
    issues,        \* tracker: issue number -> title, labels, milestone
    deletes,       \* milestones deleted by another tracker client
    added,         \* labels another tracker client added to issues
    round,         \* direct-call driver: 0 in main, else 1 or 2
    first,         \* direct-call driver: outcome and issues after call 1
    ms_ret,        \* value returned by the last ensure_milestone call
    dry_run,       \* create_github_issues: the --dry-run flag
    issues_json,   \* create_github_issues: items of tools/issues.json
    li,            \* create_github_issues: index into the label palette
    di,            \* create_github_issues: index into issues_json
    cov_out        \* check_go_coverage: lines printed by go tool cover

vars ==
    << pc, k, m, idx, num, call, callStart, ms_number, labels, err, exitCode,
       uncaught, title_to_num, missing, out, warnings, calls, trLabels,
       trMilestones, msCounter, issues, deletes, added, round, first, ms_ret,
       dry_run, issues_json, li, di, cov_out >>

tracker == << trLabels, trMilestones, msCounter, issues >>

locals == << num, call, callStart, ms_number, labels, err >>

report == << missing, out, warnings >>

driver == << round, first >>

scripts == << dry_run, issues_json, li, di, cov_out >>

(***************************************************************************)
(* Helpers.                                                                *)
(***************************************************************************)
Range(s) == { s[i] : i \in 1..Len(s) }

Min(a, b) == IF a < b THEN a ELSE b

RECURSIVE SetToSeq(_)
SetToSeq(S) ==
    IF S = {} THEN << >>
    ELSE LET x == CHOOSE y \in S : TRUE IN << x >> \o SetToSeq(S \ {x})

\* d.get(key)
DictGet(d, key) == IF key \in DOMAIN d THEN d[key] ELSE None

EmptyDict == [x \in {} |-> None]

NoCall == [number |-> 0, priority |-> "", milestone_title |-> ""]

NoErr == [type |-> "", text |-> ""]

\* One recorded gh command.
Cmd(c, name, n, ms, lbls, rc) ==
    [cmd |-> c, name |-> name, num |-> n, ms |-> ms, labels |-> lbls, rc |-> rc]

(***************************************************************************)
(* The tracker as the gh commands see it.                                  *)
(***************************************************************************)
\* stdout of  gh api repos/R/milestones -q '.[] | {title, number}' :
\* one JSON object per line.
MilestoneLines ==
    [i \in 1..Len(trMilestones) |->
        [kind |-> "json", title |-> trMilestones[i].title,
         number |-> trMilestones[i].number]]

\* Lines that do not parse, and blank lines, may surround the objects.
JunkLines ==
    << [kind |-> "invalid", title |-> "", number |-> 0],
       [kind |-> "blank", title |-> "", number |-> 0] >>

ListingOutputs == { MilestoneLines, JunkLines \o MilestoneLines }

\* The loop over res.stdout.strip().splitlines(): blank lines and lines that
\* json.loads rejects are skipped, a later title overwrites an earlier one.
RECURSIVE ParseMilestones(_)
ParseMilestones(lines) ==
    IF lines = << >> THEN EmptyDict
    ELSE LET rest == ParseMilestones(SubSeq(lines, 1, Len(lines) - 1))
             last == lines[Len(lines)]
         IN  IF last.kind # "json" THEN rest
             ELSE [t \in DOMAIN rest \cup {last.title} |->
                      IF t = last.title THEN last.number ELSE rest[t]]

MsNumbers == { trMilestones[i].number : i \in 1..Len(trMilestones) }

MsTitles == { trMilestones[i].title : i \in 1..Len(trMilestones) }

\* The tracker's number of the milestone with this title (None if absent).
MsNumberOf(title) ==
    IF title \in MsTitles
    THEN (CHOOSE r \in Range(trMilestones) : r.title = title).number
    ELSE None

\* stdout of  gh issue list --limit 200 --state open --json number,title :
\* newest issue first, cut at the limit.
RECURSIVE Descending(_)
Descending(n) ==
    IF n = 0 THEN << >>
    ELSE << [number |-> n, title |-> issues[n].title] >> \o Descending(n - 1)

IssueListing ==
    LET all == Descending(Cardinality(DOMAIN issues))
    IN  SubSeq(all, 1, Min(Len(all), IssueListLimit))

\* Variant: the first item with a title is kept.
IssueMapFirstWins(data) ==
    [t \in { data[i].title : i \in 1..Len(data) } |->
        data[CHOOSE i \in 1..Len(data) :
                /\ data[i].title = t
                /\ \A j \in 1..(i - 1) : data[j].title # t].number]

\* {item["title"]: item["number"] for item in data}
RECURSIVE IssueMap(_)
IssueMap(data) ==
    IF data = << >> THEN EmptyDict
    ELSE LET rest == IssueMap(SubSeq(data, 1, Len(data) - 1))
             last == data[Len(data)]
         IN  [t \in DOMAIN rest \cup {last.title} |->
                 IF t = last.title THEN last.number ELSE rest[t]]

(***************************************************************************)
(* Initial states.                                                         *)
(***************************************************************************)
\* What an issue may carry before the run: nothing, or a label of its own
\* together with the priority label P1 and the first startup milestone.
InitIssueStates(n) ==
    { [labels |-> {}, milestone |-> NoMilestone],
      [labels |-> {"existing", "P1"},
       milestone |-> IF n >= 1 THEN 1 ELSE NoMilestone] }

\* Priority labels the repository may hold before the run.
InitRepoLabels == { {"P0", "P1"}, {"P0", "P1", "P2"} }

\* The repository holds the first n startup milestones, numbered 1..n
\* (none on a fresh repository, all four after an earlier run).
InitMilestoneCounts == {0, Len(StartupMilestones)}

InitMilestones(n) ==
    [i \in 1..n |-> [title |-> StartupMilestones[i], number |-> i]]

\* Issue numbers are arbitrary, so the titles are taken in the order of the
\* pool (two issues may share a title); each issue has its own labels and
\* milestone.
InitIssues(n) ==
    { [i \in 1..MaxIssues |->
          [title |-> IssueTitlePool[t[i]], labels |-> s[i].labels,
           milestone |-> s[i].milestone]] :
      t \in { f \in [1..MaxIssues -> 1..Len(IssueTitlePool)] :
                \A i \in 1..(MaxIssues - 1) : f[i] <= f[i + 1] },
      s \in [1..MaxIssues -> InitIssueStates(n)] }

TrackerInit(counts) ==
    /\ \E n \in counts :
          /\ trMilestones = InitMilestones(n)
          /\ msCounter = n
          /\ issues \in InitIssues(n)
    /\ deletes = 0 /\ added = {}
    /\ \E base \in InitRepoLabels :
          trLabels =
              base \cup UNION { issues[i].labels : i \in DOMAIN issues }

\* The other two scripts are not running.
ScriptsIdle ==
    /\ dry_run = FALSE
    /\ issues_json = << >>
    /\ li = 0
    /\ di = 0
    /\ cov_out = << >>

ProgramInit ==
    /\ k = 1
    /\ m = 1
    /\ idx = 0
    /\ num = None
    /\ callStart = 0
    /\ ms_number = None
    /\ labels = << >>
    /\ err = NoErr
    /\ exitCode = -1
    /\ uncaught = ""
    /\ title_to_num = EmptyDict
    /\ missing = << >>
    /\ out = << >>
    /\ warnings = << >>
    /\ calls = << >>
    /\ ms_ret = None
    /\ ScriptsIdle

\* main() is started on some tracker state.
Init ==
    /\ TrackerInit(InitMilestoneCounts)
    /\ ProgramInit
    /\ call = NoCall
    /\ pc = "start"
    /\ round = 0
    /\ first = [result |-> "", issues |-> issues]

(***************************************************************************)
(* main(): startup.                                                        *)
(***************************************************************************)
\* An exception leaves main(): traceback, exit code 1.
Abort(e) ==
    /\ uncaught' = e
    /\ exitCode' = 1
    /\ pc' = "done"

\* gh_exists() and the check of its result in main().
GhCheck ==
    /\ pc = "start"
    /\ \E ok \in BOOLEAN :
          /\ calls' = Append(calls,
                 Cmd("gh_version", "", 0, 0, << >>, IF ok THEN 0 ELSE 1))
          /\ IF ok
             THEN /\ pc' = "ensure_label_view"
                  /\ UNCHANGED << exitCode >>
             ELSE /\ pc' = "done"
                  /\ exitCode' = 1
    /\ UNCHANGED << k, m, idx, locals, uncaught, title_to_num, report,
                    tracker, deletes, added, driver, ms_ret, scripts >>

\* The label ensure_label is called with: a startup label before the loop,
\* the entry's priority inside it.
CurLabel == IF idx = 0 THEN StartupLabels[k] ELSE plan[idx].prio

\* What follows the return of ensure_label in main().
AfterEnsureLabel ==
    IF idx = 0
    THEN /\ IF k < Len(StartupLabels)
            THEN k' = k + 1 /\ pc' = "ensure_label_view"
            ELSE k' = k /\ pc' = "ensure_milestone_list"
         /\ UNCHANGED << call, callStart >>
    ELSE /\ call' = [number |-> num, priority |-> plan[idx].prio,
                     milestone_title |-> plan[idx].ms_title]
         /\ callStart' = Len(calls')
         /\ pc' = "apply_edit"
         /\ k' = k

\* Variant: the return code of the view is not looked at.
ViewFoundLabelIgnored(rc) == FALSE

\* ensure_label (both scripts): if res.returncode == 0: return
ViewFoundLabel(rc) == rc = 0

\* ensure_label: gh label view; return if the label exists.
EnsureLabelView ==
    /\ pc = "ensure_label_view"
    /\ LET rc == IF CurLabel \in trLabels THEN 0 ELSE 1
       IN  /\ calls' = Append(calls,
                  Cmd("label_view", CurLabel, 0, 0, << >>, rc))
           /\ IF ViewFoundLabel(rc)
              THEN AfterEnsureLabel
              ELSE /\ pc' = "ensure_label_create"
                   /\ UNCHANGED << k, call, callStart >>
    /\ UNCHANGED << m, idx, num, ms_number, labels, err, exitCode, uncaught,
                    title_to_num, report, tracker, deletes, added, driver, ms_ret, scripts >>

\* Variant: the failed creation is raised instead of warned about.
LabelCreateFailedRaises(name) ==
    /\ Abort("CalledProcessError")
    /\ UNCHANGED << warnings, k, call, callStart >>

\* What ensure_label does when gh label create returns non-zero.
LabelCreateFailed(name) ==
    /\ warnings' = Append(warnings, name)
    /\ AfterEnsureLabel
    /\ UNCHANGED << exitCode, uncaught >>

\* ensure_label: gh label create (check=False); a failure is a warning.
EnsureLabelCreate ==
    /\ pc = "ensure_label_create"
    /\ \E ok \in BOOLEAN :
          /\ calls' = Append(calls,
                 Cmd("label_create", CurLabel, 0, 0, << >>,
                     IF ok THEN 0 ELSE 1))
          /\ IF ok
             THEN /\ trLabels' = trLabels \cup {CurLabel}
                  /\ AfterEnsureLabel
                  /\ UNCHANGED << warnings, exitCode, uncaught >>
             ELSE /\ LabelCreateFailed(CurLabel)
                  /\ UNCHANGED << trLabels >>
    /\ UNCHANGED << m, idx, num, ms_number, labels, err, title_to_num,
                    missing, out, trMilestones, msCounter, issues, deletes, added,
                    driver, ms_ret, scripts >>

\* Variant: the index is fetched after the first milestone.
AfterEnsureMilestoneOnce ==
    m' = m /\ pc' = "get_issue_map"

\* What follows the return of ensure_milestone in main().
AfterEnsureMilestone ==
    IF m < Len(StartupMilestones)
    THEN m' = m + 1 /\ pc' = "ensure_milestone_list"
    ELSE m' = m /\ pc' = "get_issue_map"

\* ensure_milestone: is the title among the parsed milestones?
MilestoneListedNever(numbers, title) == FALSE

MilestoneListed(numbers, title) == title \in DOMAIN numbers

\* ensure_milestone: list the milestones; return the number if the title is
\* listed.  run() raises CalledProcessError when gh fails.
EnsureMilestoneList ==
    /\ pc = "ensure_milestone_list"
    /\ \E ok \in BOOLEAN :
          /\ calls' = Append(calls,
                 Cmd("ms_list", "", 0, 0, << >>, IF ok THEN 0 ELSE 1))
          /\ IF ~ok
             THEN /\ Abort("CalledProcessError")
                  /\ UNCHANGED << m, ms_ret >>
             ELSE \E stdout \in ListingOutputs :
                     LET numbers == ParseMilestones(stdout)
                     IN  /\ IF MilestoneListed(numbers, StartupMilestones[m])
                            THEN /\ ms_ret' = numbers[StartupMilestones[m]]
                                 /\ AfterEnsureMilestone
                            ELSE /\ pc' = "ensure_milestone_create"
                                 /\ UNCHANGED << m, ms_ret >>
                         /\ UNCHANGED << exitCode, uncaught >>
    /\ UNCHANGED << k, idx, locals, title_to_num, report, tracker, deletes, added,
                    driver, scripts >>

\* The tracker creates a milestone and numbers it.
TrackerCreatesMilestone(title) ==
    /\ msCounter' = msCounter + 1
    /\ trMilestones' =
           Append(trMilestones, [title |-> title, number |-> msCounter + 1])

\* ensure_milestone: the except clause around the parsing of the created
\* object prints the failure and re-raises; main() does not catch it.
CreateResponseUnparsableSwallowed ==
    /\ AfterEnsureMilestone
    /\ ms_ret' = None
    /\ UNCHANGED << exitCode, uncaught >>

CreateResponseUnparsable ==
    /\ Abort("ParseError")
    /\ UNCHANGED << m, ms_ret >>

\* ensure_milestone: POST the milestone and parse the created object.
\* "fail": gh fails (CalledProcessError); "bad": gh succeeds but its output
\* does not parse, the exception is re-raised.
EnsureMilestoneCreate ==
    /\ pc = "ensure_milestone_create"
    /\ \E res \in {"ok", "fail", "bad"} :
          /\ calls' = Append(calls,
                 Cmd("ms_create", StartupMilestones[m], 0, 0,
                     << "state=open", MilestoneDescriptions[m] >>,
                     IF res = "fail" THEN 1 ELSE 0))
          /\ CASE res = "ok" ->
                    /\ StartupMilestones[m] \notin MsTitles
                    /\ TrackerCreatesMilestone(StartupMilestones[m])
                    /\ ms_ret' = msCounter + 1
                    /\ AfterEnsureMilestone
                    /\ UNCHANGED << exitCode, uncaught >>
               [] res = "fail" ->
                    /\ Abort("CalledProcessError")
                    /\ UNCHANGED << m, ms_ret, trMilestones, msCounter >>
               [] res = "bad" ->
                    /\ CreateResponseUnparsable
                    /\ \/ UNCHANGED << trMilestones, msCounter >>
                       \/ /\ StartupMilestones[m] \notin MsTitles
                          /\ TrackerCreatesMilestone(StartupMilestones[m])
    /\ UNCHANGED << k, idx, locals, title_to_num, report, trLabels, issues,
                    deletes, added, driver, scripts >>

\* get_issue_map and the start of the loop.
GetIssueMap ==
    /\ pc = "get_issue_map"
    /\ \E ok \in BOOLEAN :
          /\ calls' = Append(calls,
                 Cmd("issue_list", "", 0, 0, << >>, IF ok THEN 0 ELSE 1))
          /\ IF ok
             THEN /\ title_to_num' = IssueMap(IssueListing)
                  /\ idx' = 1
                  /\ pc' = "loop"
                  /\ UNCHANGED << exitCode, uncaught >>
             ELSE /\ Abort("CalledProcessError")
                  /\ UNCHANGED << title_to_num, idx >>
    /\ UNCHANGED << k, m, locals, report, tracker, deletes, added, driver, ms_ret, scripts >>

(***************************************************************************)
(* main(): the loop over the plan.                                         *)
(***************************************************************************)
Line(kind, title, n, prio, ms, text) ==
    [kind |-> kind, title |-> title, num |-> n, prio |-> prio, ms |-> ms,
     text |-> text]

\* One iteration up to its first gh command: look the title up; a title
\* that is not in the index is appended to missing (continue).
LoopStep ==
    /\ pc = "loop"
    /\ idx <= Len(plan)
    /\ LET n == DictGet(title_to_num, plan[idx].title)
       IN  IF n = None
           THEN /\ missing' = Append(missing, plan[idx].title)
                /\ idx' = idx + 1
                /\ num' = n
                /\ pc' = "loop"
           ELSE /\ num' = n
                /\ pc' = "ensure_label_view"
                /\ UNCHANGED << missing, idx >>
    /\ UNCHANGED << k, m, call, callStart, ms_number, labels, err, exitCode,
                    uncaught, title_to_num, out, warnings, calls, tracker,
                    deletes, added, driver, ms_ret, scripts >>

\* After the loop: print the missing titles; main returns (exit code 0).
LoopEnd ==
    /\ pc = "loop"
    /\ idx > Len(plan)
    /\ out' = out \o [i \in 1..Len(missing) |->
                         Line("missing", missing[i], 0, "", "", "")]
    /\ exitCode' = 0
    /\ pc' = "done"
    /\ UNCHANGED << k, m, idx, locals, uncaught, title_to_num, missing,
                    warnings, calls, tracker, deletes, added, driver, ms_ret, scripts >>

(***************************************************************************)
(* apply_issue.                                                            *)
(***************************************************************************)
\* The tracker accepts  gh issue edit N --add-label P --milestone T  only for
\* an existing issue, an existing label and an existing milestone title.
EditAccepted ==
    /\ call.number \in DOMAIN issues
    /\ call.priority \in trLabels
    /\ call.milestone_title \in MsTitles

\* Variant: the edit reaches every issue that has the title of issue n.
TrackerEditsIssueByTitle(n, priority, milestone_title) ==
    issues' =
        [i \in DOMAIN issues |->
            IF issues[i].title = issues[n].title
            THEN [issues[i] EXCEPT
                     !.labels = @ \cup {priority},
                     !.milestone = MsNumberOf(milestone_title)]
            ELSE issues[i]]

\* gh issue edit N --add-label P --milestone T : the tracker adds the label
\* and sets the milestone of issue N, in one request.
TrackerEditsIssue(n, priority, milestone_title) ==
    issues' =
        [issues EXCEPT
            ![n].labels = @ \cup {priority},
            ![n].milestone = MsNumberOf(milestone_title)]

\* Variant: the successful edit does not return and the fallback runs.
EditSucceededFallsThrough ==
    /\ pc' = "apply_ms_list"
    /\ UNCHANGED << ms_number, labels, err >>

\* apply_issue returns after a successful combined edit.
EditSucceeded ==
    /\ pc' = "apply_ok"
    /\ UNCHANGED << ms_number, labels, err >>

\* First try gh issue edit (check=False); a zero return code ends the call.
ApplyEdit ==
    /\ pc = "apply_edit"
    /\ \E ok \in BOOLEAN :
          /\ calls' = Append(calls,
                 Cmd("issue_edit", call.milestone_title, call.number, 0,
                     << call.priority >>, IF ok THEN 0 ELSE 1))
          /\ IF ok
             THEN /\ EditAccepted
                  /\ TrackerEditsIssue(call.number, call.priority,
                                       call.milestone_title)
                  /\ EditSucceeded
             ELSE /\ pc' = "apply_ms_list"
                  /\ UNCHANGED << issues, ms_number, labels, err >>
    /\ UNCHANGED << k, m, idx, num, call, callStart, exitCode, uncaught,
                    title_to_num, report, trLabels, trMilestones, msCounter,
                    deletes, added, driver, ms_ret, scripts >>

\* apply_issue raises.
Raise(type, text) ==
    /\ err' = [type |-> type, text |-> text]
    /\ pc' = "apply_err"

\* Variant: a title that is not listed is not checked for.
MilestoneLookupNoRaise(milestones) ==
    /\ ms_number' = DictGet(milestones, call.milestone_title)
    /\ pc' = "apply_issue_get"
    /\ UNCHANGED << err >>

\* ms_number = milestones.get(milestone_title); if not ms_number: raise
MilestoneLookup(milestones) ==
    LET n == DictGet(milestones, call.milestone_title)
    IN  IF n = None
        THEN /\ Raise("RuntimeError", "Milestone not found")
             /\ UNCHANGED << ms_number >>
        ELSE /\ ms_number' = n
             /\ pc' = "apply_issue_get"
             /\ UNCHANGED << err >>

\* Fallback: fetch the milestone list and resolve the title.
ApplyListMilestones ==
    /\ pc = "apply_ms_list"
    /\ \E ok \in BOOLEAN :
          /\ calls' = Append(calls,
                 Cmd("ms_list", "", 0, 0, << >>, IF ok THEN 0 ELSE 1))
          /\ IF ok
             THEN \E stdout \in ListingOutputs :
                     MilestoneLookup(ParseMilestones(stdout))
             ELSE /\ Raise("CalledProcessError", "ms_list")
                  /\ UNCHANGED << ms_number >>
    /\ UNCHANGED << k, m, idx, num, call, callStart, labels, exitCode,
                    uncaught, title_to_num, report, tracker, deletes, added, driver, ms_ret, scripts >>

\* The JSON of  gh api repos/R/issues/N : the labels in the tracker's order;
\* an issue without labels may come without the "labels" key.
IssueGetResponses(n) ==
    { [has_labels |-> TRUE, labels |-> SetToSeq(issues[n].labels)] }
    \cup (IF issues[n].labels = {}
          THEN { [has_labels |-> FALSE, labels |-> << >>] }
          ELSE {})

\* Variants: the priority is not appended; it is appended without the
\* membership test; the existing labels are dropped.
TargetLabelsNoPriority(existing, priority) == existing

TargetLabelsAlwaysAppend(existing, priority) == Append(existing, priority)

TargetLabelsOnlyPriority(existing, priority) == << priority >>

\* labels = [lbl["name"] for lbl in issue.get("labels", [])]
\* if priority not in labels: labels.append(priority)
TargetLabels(existing, priority) ==
    IF priority \in Range(existing) THEN existing
    ELSE Append(existing, priority)

\* Fallback: get the issue and compute the labels to send.
ApplyIssueGet ==
    /\ pc = "apply_issue_get"
    /\ \E ok \in BOOLEAN :
          /\ calls' = Append(calls,
                 Cmd("issue_get", "", call.number, 0, << >>,
                     IF ok THEN 0 ELSE 1))
          /\ IF ok
             THEN /\ call.number \in DOMAIN issues
                  /\ \E issue \in IssueGetResponses(call.number) :
                        labels' =
                            TargetLabels(
                                IF issue.has_labels THEN issue.labels
                                ELSE << >>,
                                call.priority)
                  /\ pc' = "apply_patch"
                  /\ UNCHANGED << err >>
             ELSE /\ Raise("CalledProcessError", "issue_get")
                  /\ UNCHANGED << labels >>
    /\ UNCHANGED << k, m, idx, num, call, callStart, ms_number, exitCode,
                    uncaught, title_to_num, report, tracker, deletes, added, driver, ms_ret, scripts >>

\* The tracker accepts the PATCH only with the number of an existing
\* milestone.
PatchAccepted ==
    /\ call.number \in DOMAIN issues
    /\ ms_number \in MsNumbers

\* Variant: the request carries the labels only.
TrackerPatchesIssueLabelsOnly(n, ms, lbls) ==
    issues' = [issues EXCEPT ![n].labels = Range(lbls)]

\* PATCH repos/.../issues/N -f milestone=<number> -f labels[]=... : the
\* tracker replaces the labels and sets the milestone of issue N, in one
\* request.
TrackerPatchesIssue(n, ms, lbls) ==
    issues' =
        [issues EXCEPT
            ![n].labels = Range(lbls),
            ![n].milestone = ms]

\* Fallback: PATCH the issue with milestone=<number> and labels[]=... ;
\* the PATCH replaces the issue's labels by the ones sent.
ApplyPatch ==
    /\ pc = "apply_patch"
    /\ \E ok \in BOOLEAN :
          /\ calls' = Append(calls,
                 Cmd("issue_patch", "", call.number, ms_number, labels,
                     IF ok THEN 0 ELSE 1))
          /\ IF ok
             THEN /\ PatchAccepted
                  /\ TrackerPatchesIssue(call.number, ms_number, labels)
                  /\ trLabels' = trLabels \cup Range(labels)
                  /\ pc' = "apply_ok"
                  /\ UNCHANGED << err >>
             ELSE /\ Raise("CalledProcessError", "issue_patch")
                  /\ UNCHANGED << issues, trLabels >>
    /\ UNCHANGED << k, m, idx, num, call, callStart, ms_number, labels,
                    exitCode, uncaught, title_to_num, report, trMilestones,
                    msCounter, deletes, added, driver, ms_ret, scripts >>

(***************************************************************************)
(* main(): what follows the apply_issue call.                              *)
(***************************************************************************)
\* apply_issue returned: print the Updated line, next entry.
MainUpdated ==
    /\ pc = "apply_ok"
    /\ round = 0
    /\ out' = Append(out,
           Line("updated", plan[idx].title, num, plan[idx].prio,
                plan[idx].ms_title, ""))
    /\ idx' = idx + 1
    /\ pc' = "loop"
    /\ UNCHANGED << k, m, locals, exitCode, uncaught, title_to_num, missing,
                    warnings, calls, tracker, deletes, added, driver, ms_ret, scripts >>

\* except subprocess.CalledProcessError as e
Catches(type) == type = "CalledProcessError"

\* Variant: the handler prints nothing.
MainExceptSilent ==
    /\ pc = "apply_err"
    /\ round = 0
    /\ IF Catches(err.type)
       THEN /\ idx' = idx + 1
            /\ pc' = "loop"
            /\ UNCHANGED << out, exitCode, uncaught >>
       ELSE /\ Abort(err.type)
            /\ UNCHANGED << out, idx >>
    /\ UNCHANGED << k, m, locals, title_to_num, missing, warnings, calls,
                    tracker, deletes, added, driver, ms_ret, scripts >>

\* apply_issue raised: the handler prints the Failed line and the loop goes
\* on; any other exception leaves main().
MainExcept ==
    /\ pc = "apply_err"
    /\ round = 0
    /\ IF Catches(err.type)
       THEN /\ out' = Append(out,
                   Line("failed", plan[idx].title, num, "", "", err.text))
            /\ idx' = idx + 1
            /\ pc' = "loop"
            /\ UNCHANGED << exitCode, uncaught >>
       ELSE /\ Abort(err.type)
            /\ UNCHANGED << out, idx >>
    /\ UNCHANGED << k, m, locals, title_to_num, missing, warnings, calls,
                    tracker, deletes, added, driver, ms_ret, scripts >>

(***************************************************************************)
(* Another client of the tracker.                                          *)
(***************************************************************************)
\* Someone deletes a milestone while the program runs; the tracker clears
\* it on the issues that had it.
\* (No gh command separates the return of apply_issue from the print that
\* follows it, so nothing is interleaved there.)
OtherDeletesMilestone ==
    /\ pc \notin {"start", "done", "apply_ok", "apply_err"}
    /\ deletes < MaxDeletes
    /\ \E i \in 1..Len(trMilestones) :
          /\ trMilestones' =
                 SubSeq(trMilestones, 1, i - 1)
                 \o SubSeq(trMilestones, i + 1, Len(trMilestones))
          /\ issues' =
                 [n \in DOMAIN issues |->
                     IF issues[n].milestone = trMilestones[i].number
                     THEN [issues[n] EXCEPT !.milestone = NoMilestone]
                     ELSE issues[n]]
    /\ deletes' = deletes + 1
    /\ UNCHANGED << added, pc, k, m, idx, locals, exitCode, uncaught, title_to_num,
                    report, calls, trLabels, msCounter, driver, ms_ret, scripts >>

(***************************************************************************)
(* Specification of a run of main() on a shared tracker.                   *)
(***************************************************************************)
Next ==
    \/ GhCheck
    \/ EnsureLabelView
    \/ EnsureLabelCreate
    \/ EnsureMilestoneList
    \/ EnsureMilestoneCreate
    \/ GetIssueMap
    \/ LoopStep
    \/ LoopEnd
    \/ ApplyEdit
    \/ ApplyListMilestones
    \/ ApplyIssueGet
    \/ ApplyPatch
    \/ MainUpdated
    \/ MainExcept
    \/ OtherDeletesMilestone

Spec == Init /\ [][Next]_vars

(***************************************************************************)
(* apply_issue(repo, number, priority, milestone_title) called directly,   *)
(* twice with the same arguments, on any tracker state and for any         *)
(* arguments (as the unit tests call it), with no other client.            *)
(***************************************************************************)
InitApply ==
    /\ TrackerInit(0..Len(StartupMilestones))
    /\ ProgramInit
    /\ call \in [number : DOMAIN issues, priority : Priorities,
                  milestone_title : MilestoneTitles]
    /\ pc = "apply_edit"
    /\ round = 1
    /\ first = [result |-> "", issues |-> issues]

\* The first call is over: remember its outcome and the issues it left, and
\* call again with the same arguments.
SecondCall ==
    /\ round = 1
    /\ pc \in {"apply_ok", "apply_err"}
    /\ first' = [result |-> IF pc = "apply_ok" THEN "ok" ELSE err.type,
                 issues |-> issues]
    /\ round' = 2
    /\ pc' = "apply_edit"
    /\ callStart' = Len(calls)
    /\ ms_number' = None
    /\ labels' = << >>
    /\ err' = NoErr
    /\ UNCHANGED << k, m, idx, num, call, exitCode, uncaught, title_to_num,
                    report, calls, tracker, deletes, added, ms_ret, scripts >>

NextApply ==
    \/ ApplyEdit
    \/ ApplyListMilestones
    \/ ApplyIssueGet
    \/ ApplyPatch
    \/ SecondCall

SpecApply == InitApply /\ [][NextApply]_vars

(***************************************************************************)
(* Properties.                                                             *)
(***************************************************************************)
InApply ==
    pc \in {"apply_edit", "apply_ms_list", "apply_issue_get", "apply_patch",
            "apply_ok", "apply_err"}

\* The gh commands of the running apply_issue call.
CallCmds == SubSeq(calls, callStart + 1, Len(calls))

LastCmd == calls[Len(calls)]

Printed(kind) == { out[i].title : i \in { j \in 1..Len(out) : out[j].kind = kind } }

\* C1: when apply_issue returns in main (the entry is then printed as
\* Updated), the indexed issue of the entry carries the entry's priority
\* label and its milestone is the tracker's milestone with the entry's
\* milestone title, by the combined edit as well as by the fallback patch.
C1_UpdatedIssueMatchesPlan ==
    (round = 0 /\ pc = "apply_ok") =>
        /\ call.number = DictGet(title_to_num, plan[idx].title)
        /\ plan[idx].prio \in issues[call.number].labels
        /\ MsNumberOf(plan[idx].ms_title) # None
        /\ issues[call.number].milestone = MsNumberOf(plan[idx].ms_title)

\* Reached: apply_issue returned in main through the fallback patch, for an
\* issue that had a label before.
C1_Witness ==
    /\ round = 0
    /\ pc = "apply_ok"
    /\ LastCmd.cmd = "issue_patch"
    /\ "existing" \in issues[call.number].labels

\* C2: once an entry is printed as Failed because a gh command of
\* apply_issue failed, every later plan entry is still processed: when main
\* has ended, each plan entry after a failed one is printed as updated,
\* failed or missing.
C2_LaterEntriesProcessedAfterFailure ==
    pc = "done" =>
        \A i \in 1..Len(plan) :
            plan[i].title \in Printed("failed") =>
                \A j \in (i + 1)..Len(plan) :
                    plan[j].title \in
                        Printed("updated") \cup Printed("failed")
                        \cup Printed("missing")

\* C3: the milestone-not-found error of apply_issue is caught in the loop of
\* main: it never ends the run.
C3_MilestoneNotFoundIsCaught == uncaught # "RuntimeError"

\* C4: the exit code depends on the gh check alone: 1 with no further
\* command when the check fails, 0 whenever the run reached the loop.
C4_ExitCodeFromGhCheckOnly ==
    pc = "done" =>
        /\ calls[1].rc # 0 => (exitCode = 1 /\ Len(calls) = 1)
        /\ idx >= 1 => exitCode = 0

\* C5: once the combined edit of an apply_issue call has succeeded, the call
\* has returned and the edit is the only command it issued.
C5_NoFallbackAfterEditSuccess ==
    (InApply /\ Len(calls) > callStart /\ calls[callStart + 1].rc = 0) =>
        /\ pc = "apply_ok"
        /\ Len(calls) = callStart + 1
        /\ calls[callStart + 1].cmd = "issue_edit"

\* Reached: an apply_issue call returned after its combined edit succeeded.
C5_Witness ==
    /\ pc = "apply_ok"
    /\ Len(calls) = callStart + 1
    /\ LastCmd.cmd = "issue_edit"
    /\ LastCmd.rc = 0

\* C6: when the combined edit failed and the listing succeeded without the
\* milestone title, the call has raised milestone-not-found after exactly
\* these two commands (no issue get, no patch), and the issues are as they
\* were when the call began.
C6_NotFoundRaisesBeforeGetAndPatch ==
    /\ (InApply /\ call.milestone_title \notin MsTitles
        /\ Len(calls) >= callStart + 2 /\ calls[callStart + 2].rc = 0) =>
           /\ pc = "apply_err"
           /\ err = [type |-> "RuntimeError", text |-> "Milestone not found"]
    /\ (pc = "apply_err" /\ err.type = "RuntimeError") =>
           /\ call.milestone_title \notin MsTitles
           /\ [i \in 1..Len(CallCmds) |-> << CallCmds[i].cmd, CallCmds[i].rc >>]
                  = << << "issue_edit", 1 >>, << "ms_list", 0 >> >>
           /\ issues = first.issues

\* Reached: a call raised milestone-not-found on an issue that has labels
\* and a milestone.
C6_Witness ==
    /\ pc = "apply_err"
    /\ err.type = "RuntimeError"
    /\ issues[call.number].labels # {}
    /\ issues[call.number].milestone # NoMilestone

\* C7: the labels sent in the fallback patch are, as a set, the labels the
\* issue had unioned with the priority label, and no label is sent twice
\* (the priority label exactly once).
C7_PatchSendsUnion ==
    (InApply /\ Len(calls) > callStart /\ LastCmd.cmd = "issue_patch") =>
        LET sent == LastCmd.labels
            existing == first.issues[call.number].labels
        IN  /\ Range(sent) = existing \cup {call.priority}
            /\ Len(sent) = Cardinality(Range(sent))
            /\ Cardinality({ i \in 1..Len(sent) : sent[i] = call.priority }) = 1

\* Reached: a patch was sent for an issue that already had the priority
\* label and another label.
C7_Witness ==
    /\ InApply
    /\ Len(calls) > callStart
    /\ LastCmd.cmd = "issue_patch"
    /\ LastCmd.rc = 0
    /\ {call.priority, "existing"} \subseteq first.issues[call.number].labels

\* C8 as stated: whatever path each of the two calls took, after the second
\* call the issue's labels and milestone are what the first call left.
C8_SecondCallChangesNothing ==
    (round = 2 /\ pc \in {"apply_ok", "apply_err"}) =>
        /\ issues[call.number].labels = first.issues[call.number].labels
        /\ issues[call.number].milestone = first.issues[call.number].milestone

\* C8 amended: if the first call returned normally (by the combined edit or
\* by the fallback patch), then throughout and after the second call, by
\* whatever path and whether it returns or raises, the issue's labels and
\* milestone are what the first call left.
C8_SecondCallAfterSuccessChangesNothing ==
    (round = 2 /\ first.result = "ok") =>
        /\ issues[call.number].labels = first.issues[call.number].labels
        /\ issues[call.number].milestone = first.issues[call.number].milestone

\* Reached: the first call returned and the second call returned through
\* the fallback patch, on an issue with a label of its own.
C8_Witness ==
    /\ round = 2
    /\ first.result = "ok"
    /\ pc = "apply_ok"
    /\ LastCmd.cmd = "issue_patch"
    /\ "existing" \in issues[call.number].labels

\* C9: every plan title that is absent from the open-issue index is printed
\* under "Missing issues" by the run.
C9_AbsentTitlesArePrintedMissing ==
    (pc = "done" /\ idx >= 1) =>
        \A i \in 1..Len(plan) :
            (i < idx /\ plan[i].title \notin DOMAIN title_to_num) =>
                plan[i].title \in Printed("missing")

\* C10: a failed label creation is a warning and nothing else: right after
\* gh label create failed, the warning for that label is the last one
\* written, no exception is pending or has ended main, and the program is at
\* what follows the ensure_label call (the next label, the milestones, or
\* the issue edit); every failed creation has its warning.
C10_LabelCreateFailureIsWarning ==
    /\ Len(warnings) =
           Cardinality({ i \in 1..Len(calls) :
                           calls[i].cmd = "label_create" /\ calls[i].rc # 0 })
    /\ (calls # << >> /\ LastCmd.cmd = "label_create" /\ LastCmd.rc # 0) =>
           /\ warnings[Len(warnings)] = LastCmd.name
           /\ exitCode = -1
           /\ uncaught = ""
           /\ pc \in {"ensure_label_view", "ensure_milestone_list",
                      "apply_edit"}

\* Reached: every label creation of the run was denied (at startup and in
\* the loop) and an issue was updated all the same.
C10_Witness ==
    /\ Len(warnings) >= 2
    /\ \A i \in 1..Len(calls) : calls[i].cmd = "label_create" => calls[i].rc # 0
    /\ \E i \in 1..Len(calls) : calls[i].cmd = "ms_list"
    /\ Printed("updated") # {}

(***************************************************************************)
(* Startup provisioning of milestones.                                     *)
(***************************************************************************)
\* The step returns from ensure_milestone into main().
EnsureMilestoneReturns ==
    /\ uncaught' = ""
    /\ \/ pc' = "ensure_milestone_list" /\ m' = m + 1
       \/ pc' = "get_issue_map" /\ m' = m

\* C11: a successful listing that shows the title ends the call with the
\* listed number, the listing being its only command and the tracker left
\* alone; a listing without the title is followed by exactly one create
\* request carrying the title, state=open and the description, and when the
\* call returns, it returns the number of the milestone just created.
C11_EnsureMilestoneResolvesOrCreates ==
    [][ /\ ( /\ pc = "ensure_milestone_list"
             /\ calls' # calls
             /\ calls'[Len(calls')].rc = 0 )
           => /\ calls' = Append(calls, Cmd("ms_list", "", 0, 0, << >>, 0))
              /\ IF StartupMilestones[m] \in MsTitles
                 THEN /\ EnsureMilestoneReturns
                      /\ ms_ret' = MsNumberOf(StartupMilestones[m])
                      /\ UNCHANGED tracker
                 ELSE /\ pc' = "ensure_milestone_create"
                      /\ m' = m
        /\ ( pc = "ensure_milestone_create" /\ calls' # calls )
           => /\ Len(calls') = Len(calls) + 1
              /\ SubSeq(calls', 1, Len(calls)) = calls
              /\ LET c == calls'[Len(calls')]
                 IN  /\ c.cmd = "ms_create"
                     /\ c.name = StartupMilestones[m]
                     /\ c.labels = << "state=open", MilestoneDescriptions[m] >>
              /\ pc' # "ensure_milestone_create"
              /\ EnsureMilestoneReturns
                 => /\ Len(trMilestones') = Len(trMilestones) + 1
                    /\ trMilestones'[Len(trMilestones')] =
                           [title |-> StartupMilestones[m], number |-> ms_ret']
                    /\ ms_ret' \notin MsNumbers
        /\ ( pc \notin {"ensure_milestone_list", "ensure_milestone_create"} )
           => ( \A i \in Len(calls) + 1 .. Len(calls') :
                   calls'[i].cmd # "ms_create" )
      ]_vars

\* A milestone was absent, was created, and its number was returned.
C11_Witness ==
    /\ pc \in {"ensure_milestone_list", "get_issue_map"}
    /\ uncaught = ""
    /\ calls # << >>
    /\ LastCmd.cmd = "ms_create"
    /\ LastCmd.rc = 0
    /\ Len(calls) >= 3
    /\ calls[Len(calls) - 1] = Cmd("ms_list", "", 0, 0, << >>, 0)
    /\ calls[Len(calls) - 2] = Cmd("ms_list", "", 0, 0, << >>, 0)
    /\ ms_ret = MsNumberOf(LastCmd.name)
    /\ ms_ret # None

\* The commands main() issues before get_issue_map.
StartupCmds == {"gh_version", "label_view", "label_create", "ms_list", "ms_create"}

\* C12: a milestone create request that gh completed either yields a number
\* to the caller or raises; it is never passed over in silence.  When the
\* response did not parse, the exception leaves main(): the run is over with
\* exit code 1, the failing create is the last command, only startup
\* commands were issued (no issue listing, no edit, no patch), nothing was
\* printed, and unless another client deleted a milestone every issue is as
\* it was when the run began.
C12_CreateParseFailureEndsRun ==
    /\ ( calls # << >> /\ LastCmd.cmd = "ms_create" /\ LastCmd.rc = 0 )
       => \/ uncaught = "ParseError"
          \/ uncaught = "" /\ ms_ret # None
    /\ uncaught = "ParseError"
       => /\ pc = "done"
          /\ exitCode = 1
          /\ LastCmd.cmd = "ms_create"
          /\ LastCmd.rc = 0
          /\ \A i \in 1..Len(calls) : calls[i].cmd \in StartupCmds
          /\ idx = 0
          /\ title_to_num = EmptyDict
          /\ out = << >>
          /\ missing = << >>
          /\ deletes = 0 => issues = first.issues

\* The second milestone's create response did not parse; the repository has
\* open issues.
C12_Witness ==
    /\ uncaught = "ParseError"
    /\ LastCmd.name = StartupMilestones[2]
    /\ DOMAIN issues # {}
    /\ \E n \in DOMAIN issues : issues[n].labels # {}
    /\ deletes = 0

(***************************************************************************)
(* The report of a run.                                                    *)
(***************************************************************************)
\* main() returned (the loop went through the whole plan).
Completed == pc = "done" /\ exitCode = 0 /\ uncaught = ""

\* The report lines that name the title.
LinesOf(title) == { j \in 1..Len(out) : out[j].title = title }

\* Some edit or patch of the issue succeeded: its apply_issue call returned.
ApplyReturnedFor(n) ==
    \E i \in 1..Len(calls) :
       /\ calls[i].cmd \in {"issue_edit", "issue_patch"}
       /\ calls[i].num = n
       /\ calls[i].rc = 0

\* C13: when main() has returned, every plan title has exactly one report
\* line and there are no other lines.  A title outside the index is
\* reported missing.  A title in the index is reported updated, with the
\* issue number, priority and milestone of its entry, if an edit or patch of
\* its issue succeeded, and failed, with the error text, if none did.
C13_EachTitleReportedOnce ==
    Completed =>
       /\ Len(out) = Len(plan)
       /\ \A i \in 1..Len(plan) :
             LET t == plan[i].title
             IN  /\ Cardinality(LinesOf(t)) = 1
                 /\ \A j \in LinesOf(t) :
                       IF t \notin DOMAIN title_to_num
                       THEN out[j].kind = "missing"
                       ELSE IF ApplyReturnedFor(title_to_num[t])
                       THEN out[j] = Line("updated", t, title_to_num[t],
                                          plan[i].prio, plan[i].ms_title, "")
                       ELSE /\ out[j].kind = "failed"
                            /\ out[j].num = title_to_num[t]
                            /\ out[j].text # ""

\* A completed run that reported all three outcomes.
C13_Witness ==
    /\ Completed
    /\ Printed("updated") # {}
    /\ Printed("failed") # {}
    /\ Printed("missing") # {}

(***************************************************************************)
(* What a run may change in the tracker.                                   *)
(***************************************************************************)
\* The issues the index gives for the titles of the plan.
IndexedIssues ==
    { title_to_num[t] : t \in DOMAIN title_to_num \cap PlanTitles }

\* C14: no step of the program (a step that is not the other client's
\* deletion) adds, removes or retitles an issue, and none changes the labels
\* or the milestone of an issue that is not the indexed issue of a plan
\* title.
C14_OnlyIndexedPlanIssuesMutated ==
    [][ deletes' = deletes =>
          /\ DOMAIN issues' = DOMAIN issues
          /\ \A n \in DOMAIN issues :
                /\ issues'[n].title = issues[n].title
                /\ n \notin IndexedIssues => issues'[n] = issues[n]
      ]_vars

\* The indexed issue of a plan title was changed while an issue with the same
\* title and an issue outside the index are in the tracker.
C14_Witness ==
    /\ deletes = 0
    /\ \E n \in IndexedIssues : issues[n] # first.issues[n]
    /\ \E n \in DOMAIN issues \ IndexedIssues :
          /\ issues[n].labels # {}
          /\ issues[n] = first.issues[n]
          /\ \E i \in IndexedIssues : issues[i].title = issues[n].title

\* Issue n carries what plan entry e asks for, on top of its labels at the
\* start of the run.
FullyUpdated(n, e) ==
    /\ issues[n].title = e.title
    /\ issues[n].labels = first.issues[n].labels \cup {e.prio}
    /\ issues[n].milestone # NoMilestone
    /\ issues[n].milestone = MsNumberOf(e.ms_title)

\* C15: wherever the run stops, and as long as no other client has deleted a
\* milestone, every issue either is as it was before the run or has both the
\* priority label and the milestone of its plan entry; no state in between
\* is ever visible.
C15_IssuesNeverHalfUpdated ==
    deletes = 0 =>
       \A n \in DOMAIN issues :
          \/ issues[n] = first.issues[n]
          \/ \E i \in 1..Len(plan) : FullyUpdated(n, plan[i])

\* Mid-run, one issue was updated by the fallback patch and now differs from
\* its state before the run, another one is still untouched.
C15_Witness ==
    /\ deletes = 0
    /\ pc = "loop"
    /\ idx <= Len(plan)
    /\ LastCmd.cmd = "issue_patch"
    /\ LastCmd.rc = 0
    /\ issues[LastCmd.num].labels # first.issues[LastCmd.num].labels
    /\ issues[LastCmd.num].milestone # first.issues[LastCmd.num].milestone
    /\ \E n \in DOMAIN issues :
          /\ issues[n] = first.issues[n]
          /\ issues[n].title \in PlanTitles
          /\ issues[n].title # issues[LastCmd.num].title

(***************************************************************************)
(* check_go_coverage.py: the coverage gate.                                *)
(*                                                                         *)
(* The output of  go tool cover -func  is a sequence of lines.  Of a line  *)
(* the model keeps what main() looks at: whether it starts with "total:",  *)
(* whether "(statements)" follows, the characters out of [0-9.] that come  *)
(* next, and whether a "%" ends them.                                      *)
(***************************************************************************)
MaxFracDigits == 10

Required == 100

\* 1e-9, as its inverse; nine decimal places.
TolInv == 1000000000

TolDigits == 9

CoverLine(start, stmts, tok, pct) ==
    [start |-> start, stmts |-> stmts, tok |-> tok, pct |-> pct]

FuncLine == CoverLine("func", TRUE, << "9", "0", ".", "0" >>, TRUE)

\* Digit strings of length 0..n: a run of zeros or nines, then a run of
\* the other digit.
FracParts(n) ==
    LET runs == { [i \in 1..(a + b) |-> IF i <= a THEN x ELSE y] :
                    x \in {"0", "9"}, y \in {"0", "9"},
                    a \in 0..n, b \in 0..n }
    IN  { f \in runs : Len(f) <= n }

IntParts ==
    { << >>, << "0" >>, << "5" >>, << "9", "9" >>, << "1", "0", "0" >>,
      << "1", "0", "1" >> }

\* The character runs that the group ([0-9.]+) can capture.
Tokens ==
    ( IntParts
      \cup { ip \o << "." >> \o f : ip \in IntParts, f \in FracParts(MaxFracDigits) }
      \cup { << "1", ".", "0", ".", "0" >> } ) \ { << >> }

\* Outputs of the tool: no total line, a total line without "(statements)"
\* or without a percentage, and a total line with a percentage, alone, after
\* an earlier total line, or followed by a function line.
CoverOutputs ==
    { << >>, << FuncLine >>,
      << FuncLine, CoverLine("total:", FALSE, << "0" >>, TRUE) >>,
      << FuncLine, CoverLine("total:", TRUE, << >>, FALSE) >> }
    \cup { << FuncLine, CoverLine("total:", TRUE, t, TRUE) >> : t \in Tokens }
    \cup { << CoverLine("total:", TRUE, << "5" >>, TRUE),
              CoverLine("total:", TRUE, t, TRUE) >> : t \in Tokens }
    \cup { << CoverLine("total:", TRUE, t, TRUE), FuncLine >> : t \in Tokens }

DigitVal(c) ==
    CASE c = "0" -> 0 [] c = "1" -> 1 [] c = "2" -> 2 [] c = "3" -> 3
      [] c = "4" -> 4 [] c = "5" -> 5 [] c = "6" -> 6 [] c = "7" -> 7
      [] c = "8" -> 8 [] c = "9" -> 9

RECURSIVE NumVal(_)
NumVal(ds) ==
    IF ds = << >> THEN 0
    ELSE NumVal(SubSeq(ds, 1, Len(ds) - 1)) * 10 + DigitVal(ds[Len(ds)])

\* for line in out.splitlines(): if line.startswith("total:"): total_line = line
RECURSIVE TotalLine(_)
TotalLine(lines) ==
    IF lines = << >> THEN << >>
    ELSE IF lines[Len(lines)].start = "total:" THEN << lines[Len(lines)] >>
    ELSE TotalLine(SubSeq(lines, 1, Len(lines) - 1))

\* re.search(r"total:\s*\(statements\)\s*([0-9.]+)%", total_line)
Matches(line) == line.stmts /\ line.tok # << >> /\ line.pct

\* float(m.group(1)): ValueError unless the token has at most one point and
\* at least one digit.  The value is kept as the integer part and the digits
\* after the point.
Dots(tok) == { i \in 1..Len(tok) : tok[i] = "." }

FloatOk(tok) == Cardinality(Dots(tok)) <= 1 /\ Len(tok) > Cardinality(Dots(tok))

Float(tok) ==
    LET p == IF Dots(tok) = {} THEN Len(tok) + 1
             ELSE CHOOSE i \in Dots(tok) : TRUE
    IN  [int |-> NumVal(SubSeq(tok, 1, p - 1)),
         frac |-> SubSeq(tok, p + 1, Len(tok))]

\* pct == 0.0
IsZero(pct) == pct.int = 0 /\ \A i \in 1..Len(pct.frac) : pct.frac[i] = "0"

\* The first nine decimals of pct as a number (in units of 1e-9), and
\* whether anything but zeros comes after them.
Nano(pct) ==
    NumVal([i \in 1..TolDigits |->
               IF i <= Len(pct.frac) THEN pct.frac[i] ELSE "0"])

Beyond(pct) == \E i \in (TolDigits + 1)..Len(pct.frac) : pct.frac[i] # "0"

\* abs(pct - 100.0) > 1e-9.  With d = pct - 100 in units of 1e-9 (whole part
\* D, plus a part in [0,1) that is positive iff Beyond): |d| < 1 passes.  A
\* difference of exactly 1e-9 computes in double arithmetic to
\* 1.0000036e-09 and exceeds the tolerance.
ExceedsTolerance(pct) ==
    IF pct.int > Required + 1 \/ pct.int < Required - 1 THEN TRUE
    ELSE LET D == (pct.int - Required) * TolInv + Nano(pct)
         IN  \/ D >= 1
             \/ D <= -2
             \/ D = -1 /\ ~Beyond(pct)

\* Variant: the guard for zero measured statements is missing.
VerdictNoSkip(pct) ==
    IF ExceedsTolerance(pct) THEN "below" ELSE "ok"

\* The two tests on pct, in the order of main().
Verdict(pct) ==
    IF IsZero(pct) THEN "skip"
    ELSE IF ExceedsTolerance(pct) THEN "below" ELSE "ok"

\* State of apply_priority's run that the gate does not touch.
mainLocals ==
    << k, m, idx, locals, title_to_num, missing, calls, tracker, deletes, added,
       driver, ms_ret, dry_run, issues_json, li, di >>

\* sys.exit(code) after the messages were printed.
CoverExit(code, stdout, stderr) ==
    /\ exitCode' = code
    /\ out' = stdout
    /\ warnings' = stderr
    /\ pc' = "done"

\* The argument check and the run of  go tool cover -func <profile> .
CoverRunTool ==
    /\ pc = "cover_start"
    /\ \E argc \in {1, 2, 3} :
          IF argc # 2
          THEN /\ CoverExit(2, << >>, << "usage" >>)
               /\ UNCHANGED cov_out
          ELSE \/ /\ CoverExit(1, << >>, << "failed to read coverage" >>)
                  /\ UNCHANGED cov_out
               \/ /\ cov_out' \in CoverOutputs
                  /\ pc' = "cover_decide"
                  /\ UNCHANGED << exitCode, out, warnings >>
    /\ UNCHANGED << uncaught, mainLocals >>

\* The rest of main(): find the total line, parse it, decide.
CoverDecide ==
    /\ pc = "cover_decide"
    /\ LET total_line == TotalLine(cov_out)
       IN  IF total_line = << >>
           THEN /\ CoverExit(1, << "output" >>, << "no total coverage line found" >>)
                /\ UNCHANGED uncaught
           ELSE IF ~Matches(total_line[1])
           THEN /\ CoverExit(1, << "total_line" >>,
                             << "could not parse total coverage" >>)
                /\ UNCHANGED uncaught
           ELSE IF ~FloatOk(total_line[1].tok)
           THEN /\ Abort("ValueError")
                /\ UNCHANGED << out, warnings >>
           ELSE LET v == Verdict(Float(total_line[1].tok))
                IN  /\ CASE v = "skip" ->
                               CoverExit(0, << "No measured statements; skipping enforcement." >>, << >>)
                          [] v = "below" ->
                               CoverExit(1, << >>, << "Coverage is below required 100%" >>)
                          [] v = "ok" ->
                               CoverExit(0, << "Coverage OK: 100%" >>, << >>)
                    /\ UNCHANGED uncaught
    /\ UNCHANGED << cov_out, mainLocals >>

\* The gate is started; nothing of the tracker matters to it.
InitCoverage ==
    /\ ProgramInit
    /\ call = NoCall
    /\ trLabels = {}
    /\ trMilestones = << >>
    /\ msCounter = 0
    /\ issues = << >>
    /\ deletes = 0 /\ added = {}
    /\ round = 0
    /\ first = [result |-> "", issues |-> << >>]
    /\ pc = "cover_start"

NextCoverage ==
    \/ CoverRunTool
    \/ CoverDecide

SpecCoverage == InitCoverage /\ [][NextCoverage]_vars

\* The gate has decided on a total that it could parse.
ParsedTotal ==
    /\ pc = "done"
    /\ TotalLine(cov_out) # << >>
    /\ Matches(TotalLine(cov_out)[1])
    /\ FloatOk(TotalLine(cov_out)[1].tok)

Total == Float(TotalLine(cov_out)[1].tok)

AllDigits(ds, from, to, c) == \A i \in from..to : i <= Len(ds) => ds[i] = c

Skipped ==
    /\ exitCode = 0
    /\ out = << "No measured statements; skipping enforcement." >>

Passed == exitCode = 0 /\ out = << "Coverage OK: 100%" >>

Failed == exitCode = 1 /\ out = << >>

\* C16 as stated: a total of 0.0 is skipped with exit code 0, a total of
\* 100.0 passes, and every other total ends with exit code 1.
C16_GateDecidesFromTotal ==
    ParsedTotal =>
       LET zero == Total.int = 0 /\ AllDigits(Total.frac, 1, Len(Total.frac), "0")
           full == /\ Total.int = Required
                   /\ AllDigits(Total.frac, 1, Len(Total.frac), "0")
       IN  /\ zero => Skipped
           /\ full => Passed
           /\ (~zero /\ ~full) => Failed

\* C16, amended: a total of 0.0 is skipped with exit code 0; a total closer
\* to 100 than 1e-9 (100.0 among them) passes; every other total, so every
\* total that is 1e-9 or more below 100, ends with exit code 1.
C16_GateDecidesWithinTolerance ==
    ParsedTotal =>
       LET zero == Total.int = 0 /\ AllDigits(Total.frac, 1, Len(Total.frac), "0")
           near == \/ /\ Total.int = Required
                      /\ AllDigits(Total.frac, 1, TolDigits, "0")
                   \/ /\ Total.int = Required - 1
                      /\ Len(Total.frac) > TolDigits
                      /\ AllDigits(Total.frac, 1, TolDigits, "9")
                      /\ ~AllDigits(Total.frac, TolDigits + 1, Len(Total.frac), "0")
       IN  /\ zero => Skipped
           /\ near => Passed
           /\ (~zero /\ ~near) => Failed

\* The gate has rejected a total of 99.9, read from the last total line.
C16_Witness ==
    /\ ParsedTotal
    /\ Len(cov_out) = 2
    /\ cov_out[1].start = "total:"
    /\ cov_out[2].tok = << "9", "9", ".", "9" >>
    /\ Failed

(***************************************************************************)
(* create_github_issues.py: labels and issues from tools/issues.json.      *)
(*                                                                         *)
(* Titles are sequences of characters, so that strip() is a computation.   *)
(***************************************************************************)
MaxItems == 2

\* label_palette, in insertion order.
LabelPalette ==
    << "epic", "backend", "ingestion", "normalization", "enrichment", "sql",
       "api", "embeddings", "ops", "tooling", "testing", "docs" >>

PaletteLabels == { LabelPalette[i] : i \in 1..Len(LabelPalette) }

\* Titles an item may have: none, blanks only, plain, padded with blanks.
ItemTitles ==
    { << >>, << " " >>, << "A" >>, << " ", "B", " " >> }

ItemLabels == { << >>, << "epic" >> }

Items == [title : ItemTitles, labels : ItemLabels]

\* The contents of tools/issues.json.
RECURSIVE ItemLists(_)
ItemLists(n) ==
    IF n = 0 THEN { << >> }
    ELSE LET shorter == ItemLists(n - 1)
         IN  shorter \cup { Append(l, i) : l \in shorter, i \in Items }

\* Labels of the repository before the run.
InitPaletteLabels ==
    { PaletteLabels, PaletteLabels \ {"epic", "docs"} }

\* str.strip() for blanks.
StripNothing(s) == s

RECURSIVE Strip(_)
Strip(s) ==
    IF s = << >> THEN s
    ELSE IF s[1] = " " THEN Strip(SubSeq(s, 2, Len(s)))
    ELSE IF s[Len(s)] = " " THEN Strip(SubSeq(s, 1, Len(s) - 1))
    ELSE s

\* if dry_run: print("DRY-RUN:", ...); return   (ensure_label, create_issue)
EnsureLabelDryRunIgnored == FALSE

EnsureLabelDryRun == dry_run

CreateIssueDryRun == dry_run

\* State of apply_priority's run and of the gate, left alone here.
otherScripts ==
    << k, m, idx, locals, title_to_num, missing, warnings, trMilestones,
       msCounter, deletes, added, driver, ms_ret, cov_out >>

\* gh_exists(); then the file is read and the label loop begins.
CgiGhCheck ==
    /\ pc = "cgi_start"
    /\ \E ok \in BOOLEAN :
          /\ calls' = Append(calls,
                 Cmd("gh_version", "", 0, 0, << >>, IF ok THEN 0 ELSE 1))
          /\ IF ok
             THEN /\ li' = 1
                  /\ pc' = "cgi_label_view"
                  /\ UNCHANGED exitCode
             ELSE /\ exitCode' = 1
                  /\ pc' = "done"
                  /\ UNCHANGED li
    /\ UNCHANGED << dry_run, issues_json, di, out, uncaught, trLabels, issues,
                    otherScripts >>

\* The label loop goes on to the next label, or the item loop begins.
CgiNextLabel ==
    IF li < Len(LabelPalette)
    THEN li' = li + 1 /\ pc' = "cgi_label_view" /\ UNCHANGED di
    ELSE li' = li /\ pc' = "cgi_item" /\ di' = 1

\* ensure_label: gh label view (check=False); an existing label returns.
\* For a missing one the dry run prints the create command and returns.
CgiEnsureLabelView ==
    /\ pc = "cgi_label_view"
    /\ LET name == LabelPalette[li]
           rc == IF name \in trLabels THEN 0 ELSE 1
       IN  /\ calls' = Append(calls, Cmd("label_view", name, 0, 0, << >>, rc))
           /\ IF ViewFoundLabel(rc)
              THEN /\ out' = IF dry_run
                             THEN Append(out, Line("ensured", name, 0, "", "", ""))
                             ELSE out
                   /\ CgiNextLabel
              ELSE IF EnsureLabelDryRun
              THEN /\ out' = out \o << Line("dry_label", name, 0, "", "", ""),
                                       Line("ensured", name, 0, "", "", "") >>
                   /\ CgiNextLabel
              ELSE /\ pc' = "cgi_label_create"
                   /\ UNCHANGED << out, li, di >>
    /\ UNCHANGED << dry_run, issues_json, exitCode, uncaught, trLabels, issues,
                    otherScripts >>

\* ensure_label: gh label create (check=True); main() catches the
\* CalledProcessError and prints a warning.
CgiEnsureLabelCreate ==
    /\ pc = "cgi_label_create"
    /\ LET name == LabelPalette[li]
       IN  \E ok \in BOOLEAN :
              /\ calls' = Append(calls,
                     Cmd("label_create", name, 0, 0, << >>, IF ok THEN 0 ELSE 1))
              /\ IF ok
                 THEN /\ trLabels' = trLabels \cup {name}
                      /\ out' = IF dry_run
                                THEN Append(out, Line("ensured", name, 0, "", "", ""))
                                ELSE out
                 ELSE /\ out' = Append(out,
                             Line("label_warning", name, 0, "", "", "stderr"))
                      /\ UNCHANGED trLabels
              /\ CgiNextLabel
    /\ UNCHANGED << dry_run, issues_json, exitCode, uncaught, issues,
                    otherScripts >>

\* The tracker opens an issue and numbers it.
TrackerCreatesIssue(title, lbls) ==
    issues' = Append(issues, [title |-> title, labels |-> Range(lbls),
                              milestone |-> NoMilestone])

\* One iteration of the item loop up to its gh command: an item without a
\* title is skipped; the dry run prints the create command instead of
\* running it.
CgiItem ==
    /\ pc = "cgi_item"
    /\ di <= Len(issues_json)
    /\ LET title == Strip(issues_json[di].title)
       IN  IF title = << >>
           THEN /\ out' = Append(out, Line("skipping", title, 0, "", "", ""))
                /\ di' = di + 1
                /\ pc' = "cgi_item"
           ELSE IF CreateIssueDryRun
           THEN /\ out' = out \o << Line("dry_issue", title, 0, "", "", ""),
                                    Line("created", title, 0, "", "", "") >>
                /\ di' = di + 1
                /\ pc' = "cgi_item"
           ELSE /\ pc' = "cgi_issue_create"
                /\ UNCHANGED << out, di >>
    /\ UNCHANGED << dry_run, issues_json, li, calls, exitCode, uncaught,
                    trLabels, issues, otherScripts >>

\* create_issue: gh issue create (check=True), which the tracker accepts
\* only with labels it has; main() catches the CalledProcessError and
\* prints the error.
CgiCreateIssue ==
    /\ pc = "cgi_issue_create"
    /\ LET title == Strip(issues_json[di].title)
           lbls == issues_json[di].labels
       IN  \E ok \in BOOLEAN :
              /\ calls' = Append(calls,
                     Cmd("issue_create", title, 0, 0, lbls, IF ok THEN 0 ELSE 1))
              /\ IF ok
                 THEN /\ Range(lbls) \subseteq trLabels
                      /\ TrackerCreatesIssue(title, lbls)
                      /\ out' = Append(out, Line("created", title, 0, "", "", ""))
                 ELSE /\ out' = Append(out,
                             Line("issue_error", title, 0, "", "", "stderr"))
                      /\ UNCHANGED issues
    /\ di' = di + 1
    /\ pc' = "cgi_item"
    /\ UNCHANGED << dry_run, issues_json, li, exitCode, uncaught, trLabels,
                    otherScripts >>

\* The item loop is over: main() returns.
CgiEnd ==
    /\ pc = "cgi_item"
    /\ di > Len(issues_json)
    /\ exitCode' = 0
    /\ pc' = "done"
    /\ UNCHANGED << dry_run, issues_json, li, di, calls, out, uncaught,
                    trLabels, issues, otherScripts >>

\* main() is started, with or without --dry-run, on some issues.json and
\* some repository; first remembers the repository.
InitCreate ==
    /\ k = 1 /\ m = 1 /\ idx = 0 /\ num = None /\ call = NoCall
    /\ callStart = 0 /\ ms_number = None /\ labels = << >> /\ err = NoErr
    /\ exitCode = -1 /\ uncaught = "" /\ title_to_num = EmptyDict
    /\ missing = << >> /\ out = << >> /\ warnings = << >> /\ calls = << >>
    /\ ms_ret = None /\ cov_out = << >>
    /\ trMilestones = << >> /\ msCounter = 0 /\ deletes = 0 /\ added = {} /\ round = 0
    /\ dry_run \in BOOLEAN
    /\ issues_json \in ItemLists(MaxItems)
    /\ li = 0
    /\ di = 0
    /\ trLabels \in InitPaletteLabels
    /\ issues \in { << >>,
                    << [title |-> << "A" >>, labels |-> {"epic"},
                        milestone |-> NoMilestone] >> }
    /\ first = [result |-> "", issues |-> issues, labels |-> trLabels]
    /\ pc = "cgi_start"

NextCreate ==
    \/ CgiGhCheck
    \/ CgiEnsureLabelView
    \/ CgiEnsureLabelCreate
    \/ CgiItem
    \/ CgiCreateIssue
    \/ CgiEnd

SpecCreate == InitCreate /\ [][NextCreate]_vars

\* C17: in a dry run every gh command issued is read-only (gh --version by
\* gh_exists, gh label view by ensure_label; ensure_label and create_issue
\* run nothing else), the create commands of the missing labels and of the
\* items are printed instead, and the labels and issues of the repository
\* stay as they were.
C17_DryRunMutatesNothing ==
    dry_run =>
       /\ \A i \in 1..Len(calls) : calls[i].cmd \in {"gh_version", "label_view"}
       /\ \A i \in 1..Len(calls) :
             (calls[i].cmd = "label_view" /\ calls[i].rc # 0)
             => calls[i].name \in Printed("dry_label")
       /\ trLabels = first.labels
       /\ issues = first.issues
       /\ (pc = "done" /\ exitCode = 0)
          => Cardinality({ j \in 1..Len(out) : out[j].kind = "dry_issue" })
             = Cardinality({ i \in 1..Len(issues_json) :
                               \E c \in 1..Len(issues_json[i].title) :
                                  issues_json[i].title[c] # " " })

\* A dry run is over; a label was missing and an item had a title.
C17_Witness ==
    /\ dry_run
    /\ pc = "done"
    /\ exitCode = 0
    /\ Printed("dry_label") # {}
    /\ Printed("dry_issue") # {}
    /\ Printed("skipping") # {}
    /\ issues # << >>

(***************************************************************************)
(* The order of the commands of a run.                                     *)
(***************************************************************************)
Pos(cmds) == { i \in 1..Len(calls) : calls[i].cmd \in cmds }

\* The commands before the fetch of the index (all of them, if there was no
\* fetch).
StartupEnd ==
    IF Pos({"issue_list"}) = {} THEN Len(calls)
    ELSE (CHOOSE i \in Pos({"issue_list"}) :
             \A j \in Pos({"issue_list"}) : i <= j) - 1

IsLabelView(c) == c.cmd = "label_view"

IsMsList(c) == c.cmd = "ms_list"

IsMsCreate(c) == c.cmd = "ms_create"

Names(cs) == [i \in 1..Len(cs) |-> cs[i].name]

IsPrefix(s, t) == Len(s) <= Len(t) /\ SubSeq(t, 1, Len(s)) = s

PlanIndexOf ==
    [t \in PlanTitles |-> CHOOSE p \in 1..Len(plan) : plan[p].title = t]

PlanIndex(t) == PlanIndexOf[t]

PlanIndexOfIssue(n) ==
    CHOOSE p \in 1..Len(plan) : DictGet(title_to_num, plan[p].title) = n

MilestoneIndex(t) ==
    CHOOSE i \in 1..Len(StartupMilestones) : StartupMilestones[i] = t

\* C18: after the gh check come the label commands for P0, P1, P2 in this
\* order, then the milestone commands, one listing per milestone and
\* creations in the order M0..M3, then, once, the fetch of the index, which
\* happens only after all three labels and all four milestones were
\* ensured.  After the fetch nothing is provisioned but the label of the
\* entry at hand: every issue edit directly follows the view or creation of
\* the label of its priority.  Edits, report lines and missing titles come
\* in the order of the plan.
C18_PhasesInFixedOrder ==
    LET startup == SubSeq(calls, 1, StartupEnd)
        views == Names(SelectSeq(startup, IsLabelView))
        created == Names(SelectSeq(startup, IsMsCreate))
        lists == Len(SelectSeq(startup, IsMsList))
    IN  /\ calls # << >> => calls[1].cmd = "gh_version"
        /\ Cardinality(Pos({"issue_list"})) <= 1
        /\ \A i \in 1..StartupEnd : calls[i].cmd \in StartupCmds
        /\ IsPrefix(views, StartupLabels)
        /\ \A i \in 2..StartupEnd :
              /\ calls[i].cmd # "gh_version"
              /\ calls[i].cmd \in {"label_view", "label_create"}
                 => calls[i - 1].cmd \notin {"ms_list", "ms_create"}
        /\ lists <= Len(StartupMilestones)
        /\ \A a, b \in 1..Len(created) :
              a < b => MilestoneIndex(created[a]) < MilestoneIndex(created[b])
        /\ \A i \in Pos({"ms_create"}) : i > 1 /\ calls[i - 1].cmd = "ms_list"
        /\ Pos({"issue_list"}) # {}
           => /\ views = StartupLabels
              /\ lists = Len(StartupMilestones)
        /\ \A i \in (StartupEnd + 2)..Len(calls) :
              calls[i].cmd \notin {"gh_version", "ms_create", "issue_list"}
        /\ \A i \in Pos({"issue_edit"}) :
              /\ calls[i - 1].cmd \in {"label_view", "label_create"}
              /\ calls[i - 1].name = calls[i].labels[1]
        /\ \A i, j \in Pos({"issue_edit"}) :
              i < j => PlanIndexOfIssue(calls[i].num) < PlanIndexOfIssue(calls[j].num)
        /\ \A a \in 1..(Len(missing) - 1) :
              PlanIndex(missing[a]) < PlanIndex(missing[a + 1])
        /\ pc # "done"
           => \A a \in 1..(Len(out) - 1) :
                 PlanIndex(out[a].title) < PlanIndex(out[a + 1].title)

\* A full run: labels and milestones were created at startup, two issues
\* were edited, one after its label had to be created again.
C18_Witness ==
    /\ Completed
    /\ Cardinality(Pos({"issue_edit"})) >= 2
    /\ \E i \in 1..StartupEnd : calls[i].cmd = "label_create"
    /\ \E i \in 1..StartupEnd : calls[i].cmd = "ms_create"
    /\ \E i \in Pos({"issue_edit"}) : calls[i - 1].cmd = "label_create"

(***************************************************************************)
(* The index of open issues.                                               *)
(***************************************************************************)
\* The place in the listing l of the last item with the title.
LastListed(l, t) ==
    CHOOSE i \in 1..Len(l) :
       /\ l[i].title = t
       /\ \A j \in (i + 1)..Len(l) : l[j].title # t

\* Issues whose title comes again later in the listing l.
OverwrittenIn(l) ==
    { l[i].number : i \in { j \in 1..Len(l) : j # LastListed(l, l[j].title) } }

Overwritten == OverwrittenIn(IssueListing)

\* C19: once the index is fetched it holds exactly the titles of the listed
\* issues, each with the number of the last issue of that title in the
\* listing, and the fetch raised nothing.  An issue whose title comes again
\* later in the listing is never the target of an edit, a read or a patch,
\* and the run leaves it as it was.
C19_LastIssueOfTitleWins ==
    /\ (calls # << >> /\ LastCmd = Cmd("issue_list", "", 0, 0, << >>, 0))
       => (idx >= 1 /\ uncaught = "" /\ exitCode # 1)
    /\ idx >= 1 =>
       LET l == IssueListing
           targets == { calls[i].num :
                          i \in Pos({"issue_edit", "issue_get", "issue_patch"}) }
       IN  /\ DOMAIN title_to_num = { l[i].title : i \in 1..Len(l) }
           /\ \A t \in DOMAIN title_to_num :
                 title_to_num[t] = l[LastListed(l, t)].number
           /\ \A n \in OverwrittenIn(l) :
                 /\ n \notin targets
                 /\ deletes = 0 => issues[n] = first.issues[n]

\* Two open issues share a plan title; the one listed last was updated, the
\* other one is as before.
C19_Witness ==
    /\ idx >= 1
    /\ deletes = 0
    /\ \E n \in Overwritten :
          /\ issues[n].title \in PlanTitles
          /\ issues[n].labels # {}
          /\ \E i \in DOMAIN issues :
                /\ i = title_to_num[issues[n].title]
                /\ issues[i] # first.issues[i]
                /\ issues[n].title \in Printed("updated")

IsIssueCreate(c) == c.cmd = "issue_create"

IsDryIssue(l) == l.kind = "dry_issue"

\* The places of the characters of a title that are not blanks.
Inked(s) == { c \in 1..Len(s) : s[c] # " " }

Trimmed(s) ==
    SubSeq(s, CHOOSE a \in Inked(s) : \A c \in Inked(s) : a <= c,
              CHOOSE b \in Inked(s) : \A c \in Inked(s) : c <= b)

\* The items of issues.json that have a title.
Titled == { i \in 1..Len(issues_json) : Inked(issues_json[i].title) # {} }

\* The r-th of them, in file order.
NthTitled(r) ==
    CHOOSE i \in Titled : Cardinality({ j \in Titled : j <= i }) = r

\* The titles of the create attempts, in the order they were made: commands
\* run, or commands printed by the dry run.
Attempts ==
    IF dry_run
    THEN [i \in 1..Len(SelectSeq(out, IsDryIssue)) |->
             SelectSeq(out, IsDryIssue)[i].title]
    ELSE Names(SelectSeq(calls, IsIssueCreate))

CountLines(kind) == Cardinality({ j \in 1..Len(out) : out[j].kind = kind })

\* C20: when main() has ended after a successful gh check, whatever label
\* or issue creations failed: every label of the palette was looked up, in
\* the order of the palette; there was exactly one create attempt for each
\* item that has a title after strip(), with the stripped title, in file
\* order; every other item was skipped with a message; every failed label
\* creation has its warning and every failed issue creation its error line.
C20_EveryTitledItemAttemptedOnce ==
    (pc = "done" /\ calls[1].rc = 0) =>
       /\ exitCode = 0
       /\ Names(SelectSeq(calls, IsLabelView)) = LabelPalette
       /\ Len(Attempts) = Cardinality(Titled)
       /\ \A r \in 1..Len(Attempts) :
             Attempts[r] = Trimmed(issues_json[NthTitled(r)].title)
       /\ CountLines("skipping") = Len(issues_json) - Cardinality(Titled)
       /\ \A i \in Pos({"label_create"}) :
             calls[i].rc # 0 => calls[i].name \in Printed("label_warning")
       /\ CountLines("issue_error")
          = Cardinality({ i \in Pos({"issue_create"}) : calls[i].rc # 0 })
       /\ CountLines("created")
          = IF dry_run THEN Cardinality(Titled)
            ELSE Cardinality({ i \in Pos({"issue_create"}) : calls[i].rc = 0 })

\* A run in which the creation of the first label failed, and an issue
\* creation failed before a later one, of a padded title, succeeded.
C20_Witness ==
    /\ pc = "done"
    /\ ~dry_run
    /\ LabelPalette[1] \in Printed("label_warning")
    /\ \E i, j \in Pos({"issue_create"}) :
          /\ i < j
          /\ calls[i].rc # 0
          /\ calls[j].rc = 0
          /\ calls[j].name # issues_json[Len(issues_json)].title
    /\ \E i, j \in Pos({"issue_create"}) :
          i < j /\ calls[i].rc # 0 /\ calls[j].rc = 0

(***************************************************************************)
(* Either script is run.                                                   *)
(***************************************************************************)
InitScripts == Init \/ InitCreate

NextScripts == Next \/ NextCreate

SpecScripts == InitScripts /\ [][NextScripts]_vars

\* C21: in both scripts a label is created only right after a view of the
\* same label that returned non-zero; a view that found the label is
\* followed by no creation; and while ensure_label is about to create, the
\* failed view of that label is the last command.  So a call runs the view
\* first, the view alone when the label exists, and at most one creation.
C21_LabelViewBeforeCreate ==
    /\ \A i \in Pos({"label_create"}) :
          /\ i > 1
          /\ calls[i - 1].cmd = "label_view"
          /\ calls[i - 1].name = calls[i].name
          /\ calls[i - 1].rc # 0
    /\ \A i \in Pos({"label_view"}) :
          (calls[i].rc = 0 /\ i < Len(calls))
          => calls[i + 1].cmd # "label_create"
    /\ pc \in {"ensure_label_create", "cgi_label_create"}
       => /\ LastCmd.cmd = "label_view"
          /\ LastCmd.rc # 0
          /\ LastCmd.name = IF pc = "ensure_label_create" THEN CurLabel
                            ELSE LabelPalette[li]

\* apply_priority found P0 and P1 and had to create P2.
C21_Witness ==
    /\ pc = "ensure_milestone_list"
    /\ Len(calls) = 5
    /\ calls[2] = Cmd("label_view", "P0", 0, 0, << >>, 0)
    /\ calls[3] = Cmd("label_view", "P1", 0, 0, << >>, 0)
    /\ calls[4] = Cmd("label_view", "P2", 0, 0, << >>, 1)
    /\ calls[5].cmd = "label_create"
    /\ calls[5].name = "P2"

(***************************************************************************)
(* apply_issue while another client labels issues.                         *)
(***************************************************************************)
MaxAdds == 1

\* Labels the program never sets.
OtherLabels == {"triage"}

\* Between two gh commands of apply_issue someone adds a label to an issue;
\* added remembers the issue, the label and how many commands had been
\* issued by then.
OtherAddsLabel ==
    /\ pc \in {"apply_edit", "apply_ms_list", "apply_issue_get", "apply_patch"}
    /\ Cardinality(added) < MaxAdds
    /\ \E n \in DOMAIN issues, l \in OtherLabels :
          /\ l \notin issues[n].labels
          /\ issues' = [issues EXCEPT ![n].labels = @ \cup {l}]
          /\ trLabels' = trLabels \cup {l}
          /\ added' = added \cup {[issue |-> n, label |-> l, at |-> Len(calls)]}
    /\ UNCHANGED << pc, k, m, idx, locals, exitCode, uncaught, title_to_num,
                    report, calls, trMilestones, msCounter, deletes, driver,
                    ms_ret, scripts >>

NextRace ==
    \/ ApplyEdit
    \/ ApplyListMilestones
    \/ ApplyIssueGet
    \/ ApplyPatch
    \/ OtherAddsLabel

SpecRace == InitApply /\ [][NextRace]_vars

\* The fallback patch has just succeeded, right after its issue get.
PatchedAfterGet ==
    /\ pc = "apply_ok"
    /\ Len(calls) >= 2
    /\ LastCmd.cmd = "issue_patch"
    /\ LastCmd.rc = 0
    /\ calls[Len(calls) - 1].cmd = "issue_get"

\* C22: when the fallback patch has succeeded, a label that another client
\* added to the issue after the issue get and before the patch is on the
\* issue.
C22_InterleavedLabelSurvivesPatch ==
    PatchedAfterGet =>
       \A a \in added :
          (a.issue = LastCmd.num /\ a.at = Len(calls) - 1)
          => a.label \in issues[a.issue].labels

(***************************************************************************)
(* C23: plan entries and the milestones ensured at startup.                *)
(***************************************************************************)

\* The fallback of apply_issue raised milestone-not-found (pending in
\* apply_issue, or propagated out of main).
MilestoneNotFoundRaised ==
    \/ err = [type |-> "RuntimeError", text |-> "Milestone not found"]
    \/ uncaught = "RuntimeError"

\* C23: every plan entry has a priority among P0, P1, P2 and a milestone title
\* among the four milestones ensured at startup; every apply_issue call of
\* main is made with such a pair; and as long as no other actor has deleted a
\* milestone, the fallback never raises milestone-not-found.
C23_PlanMilestonesAlwaysResolve ==
    /\ \A i \in 1..Len(plan) :
          /\ plan[i].prio \in Priorities
          /\ plan[i].ms_title \in MilestoneTitles
    /\ InApply =>
          /\ call.priority \in Priorities
          /\ call.milestone_title \in MilestoneTitles
    /\ deletes = 0 => ~MilestoneNotFoundRaised

\* The fallback of a call made by main has listed the milestones and found
\* the entry's milestone, with no milestone deleted by anyone.
C23_Witness ==
    /\ deletes = 0
    /\ idx >= 1
    /\ pc = "apply_issue_get"
    /\ LastCmd.cmd = "ms_list" /\ LastCmd.rc = 0
    /\ ms_number # None
    /\ call.milestone_title \in MilestoneTitles

====
